---------------------------- MODULE Spec2Model ----------------------------
(***************************************************************************)
(* Solarman V5 framing and device session of SUN600G3_Monitoring.          *)
(*                                                                         *)
(* The specifications of this module:                                      *)
(*   Spec       the device sessions driven by the per-inverter workers     *)
(*              (src/src/solarmanv5.rs SolarmanDevice, src/src/inverter.rs,*)
(*              src/src/main.rs run_monitoring)                            *)
(*   FairSpec   Spec with every worker thread scheduled and every blocking *)
(*              call returning                                             *)
(*   AnsweringSpec  FairSpec with devices that eventually answer           *)
(*   CodecSpec  the frame codec applied to inputs drawn from bounded sets  *)
(*              (Request::to_bytes, Response::from_bytes)                  *)
(* Byte offsets in comments are the 0-based offsets of the Rust source;    *)
(* TLA+ sequences are 1-based, so offset k is element k+1.                 *)
(***************************************************************************)
EXTENDS Integers, Sequences, FiniteSets, TLC

VARIABLES
    pc,             \* per worker: position in run_monitoring and the session calls
    logger_serial,  \* per worker: SolarmanDevice.logger_serial
    connection,     \* per worker: 1 while the local `connection` holds a stream
    open,           \* per worker: number of sockets the OS holds open for it
    attempts,       \* per worker: connect_timeout calls of the current operation
    ops,            \* per worker: operations started (counted up to MaxOps)
    handshakes,     \* per worker: successful detect_serial runs on the session
    exFailures,     \* per worker: failed exchanges (counted up to MaxOps)
    wire,           \* per worker: the request bytes last written to the socket
    hsResp,         \* per worker: the 29 bytes the successful handshake read
    result,         \* per worker: what the last finished operation returned
    mdata,          \* per worker: `data` of the current pass of the polling loop
    stored,         \* per worker: outcome of client.send in the current pass
    influx_url,     \* whether "http://{influx_ip}:{influx_port}" parses as a URL
    cStage,         \* codec: "idle" | "input" | "encoded" | "round_trip" | "decoded"
    cRequest,       \* codec: the Request given to Request::to_bytes
    cData,          \* codec: the buffer given to Response::from_bytes
    cEncoded,       \* codec: outcome of Request::to_bytes
    cResponse       \* codec: outcome of Response::from_bytes

sessionVars == <<pc, logger_serial, connection, open, attempts, ops,
                 handshakes, exFailures, wire, hsResp, result, mdata, stored,
                 influx_url>>
codecVars == <<cStage, cRequest, cData, cEncoded, cResponse>>
vars == <<sessionVars, codecVars>>

---------------------------------------------------------------------------
(* Bounds and program constants *)

MaxOps == 2          \* the counters ops and exFailures stop counting here
MaxFrameLen == 2     \* longest enumerated embedded frame of the codec inputs

U16Max == 65535

\* Mutant: the handshake buffer is three bytes short of the skeleton.
HandshakeResponseLen_short == 29 - 3

\* let mut response_buffer = [0; 29] in detect_serial
HandshakeResponseLen == 29

\* Mutant: the exchange buffer is three bytes shorter.
ExchangeResponseLen_short == 140 - 3

\* let mut response_buffer = [0; 140] in send_modbus_frame
ExchangeResponseLen == 140

Workers == {"inv1", "inv2"}

FrameBytes == {0, 1, 255}

---------------------------------------------------------------------------
(* Integer and byte helpers *)

RECURSIVE Pow256(_)
Pow256(n) == IF n = 0 THEN 1 ELSE 256 * Pow256(n - 1)

\* v.to_le_bytes() of an n-byte unsigned integer
to_le_bytes(v, n) == [i \in 1..n |-> (v \div Pow256(i - 1)) % 256]

\* v.to_be_bytes() of an n-byte unsigned integer
to_be_bytes(v, n) == [i \in 1..n |-> (v \div Pow256(n - i)) % 256]

\* u16::from_le_bytes
from_le_bytes(b) == b[1] + 256 * b[2]

\* &data[lo..hi] with 0-based half-open bounds.  The source takes a slice
\* only after its bounds check passed (SliceOk below); an element outside
\* data, which no checked slice has, is written 0 so that the operator is
\* total.
Slice(data, lo, hi) ==
    IF lo <= hi /\ hi <= Len(data)
    THEN SubSeq(data, lo + 1, hi)
    ELSE LET n == Len(data)
         IN  [i \in 1..(hi - lo) |-> IF lo + i <= n THEN data[lo + i] ELSE 0]

RECURSIVE SumRange(_, _, _)
SumRange(s, lo, hi) ==
    IF lo > hi THEN 0
    ELSE IF lo = hi THEN s[lo]
    ELSE LET mid == (lo + hi) \div 2
         IN  SumRange(s, lo, mid) + SumRange(s, mid + 1, hi)

Max(a, b) == IF a >= b THEN a ELSE b

---------------------------------------------------------------------------
(* Frame codec: encoding a Request *)

Header(msg_id, serial) == [msg_id |-> msg_id, logger_serial |-> serial]

Payload(frame_type, sensor_type, total, uptime, offset, frame) ==
    [frame_type |-> frame_type, sensor_type |-> sensor_type,
     total_working_second |-> total, uptime_second |-> uptime,
     offset_seconds |-> offset, modbus_rtu_frame |-> frame]

\* RequestFrameType::SolarInverter as u8
SolarInverter == 2

\* RequestHeader::to_bytes
RequestHeader_to_bytes(header, payload_length) ==
    <<165>> \o to_le_bytes(payload_length, 2) \o <<16, 69>>
            \o to_le_bytes(header.msg_id, 2) \o header.logger_serial

\* Mutant: the sensor type is written little-endian like every other field.
RequestPayload_to_bytes_le(payload) ==
    <<payload.frame_type>> \o to_le_bytes(payload.sensor_type, 2)
        \o to_le_bytes(payload.total_working_second, 4)
        \o to_le_bytes(payload.uptime_second, 4)
        \o to_le_bytes(payload.offset_seconds, 4)
        \o payload.modbus_rtu_frame

\* RequestPayload::to_bytes
RequestPayload_to_bytes(payload) ==
    <<payload.frame_type>> \o to_be_bytes(payload.sensor_type, 2)
        \o to_le_bytes(payload.total_working_second, 4)
        \o to_le_bytes(payload.uptime_second, 4)
        \o to_le_bytes(payload.offset_seconds, 4)
        \o payload.modbus_rtu_frame

\* Mutant: `as u16` instead of try_into().expect(): the length wraps silently.
RequestPayload_length_wrapping(payload) ==
    [panic |-> FALSE,
     value |-> (15 + Len(payload.modbus_rtu_frame)) % (U16Max + 1)]

\* RequestPayload::length: usize -> u16 by try_into().expect(), which panics
\* when 15 + len does not fit in 16 bits.
RequestPayload_length(payload) ==
    LET n == 15 + Len(payload.modbus_rtu_frame)
    IN  [panic |-> n > U16Max, value |-> IF n > U16Max THEN 0 ELSE n]

\* Mutant: the start byte is summed too (bytes[0..] instead of bytes[1..]).
Checksum_from_start(bytes) == SumRange(bytes, 1, Len(bytes)) % 256

\* Mutant: only the header is summed; the payload is left out.
Checksum_header_only(bytes) == SumRange(bytes, 2, 11) % 256

\* bytes[1..].iter().map(|b| *b as u32).sum::<u32>() as u8.  The u32 sum
\* cannot wrap: bytes holds at most 11 + 65535 bytes of at most 255 each,
\* which sum to less than 2^24; `as u8` keeps the low 8 bits.
Checksum(bytes) == SumRange(bytes, 2, Len(bytes)) % 256

\* Request::to_bytes
Request_to_bytes(request) ==
    LET payload_length == RequestPayload_length(request.payload)
        body == RequestHeader_to_bytes(request.header, payload_length.value)
                    \o RequestPayload_to_bytes(request.payload)
    IN  IF payload_length.panic
        THEN [panic |-> TRUE, bytes |-> <<>>]
        ELSE [panic |-> FALSE, bytes |-> body \o <<Checksum(body)>> \o <<21>>]

---------------------------------------------------------------------------
(* Frame codec: decoding a Response.  Every index and slice expression of  *)
(* the Rust source is bounds-checked; a failed check panics.  A Step is    *)
(* one such expression: whether its check passes and the end (exclusive)   *)
(* of the bytes it reads when it does.                                     *)

Step(ok, hi) == [ok |-> ok, hi |-> hi]

\* Mutant: the upper bound of a slice is not checked.
SliceOk_unchecked(len, lo, hi) == lo <= hi

\* The bounds check of &data[lo..hi] on a slice of length len
SliceOk(len, lo, hi) == lo <= hi /\ hi <= len

FirstBad(steps) ==
    IF \A i \in 1..Len(steps) : steps[i].ok
    THEN Len(steps) + 1
    ELSE CHOOSE i \in 1..Len(steps) :
            ~steps[i].ok /\ \A j \in 1..(i - 1) : steps[j].ok

RECURSIVE MaxHi(_, _)
MaxHi(steps, n) == IF n = 0 THEN 0 ELSE Max(steps[n].hi, MaxHi(steps, n - 1))

\* The steps run in order up to the first failed check.
Checked(steps) ==
    [panic |-> FirstBad(steps) <= Len(steps),
     touched |-> MaxHi(steps, FirstBad(steps) - 1)]

\* Mutant: the serial is taken one byte early (data[6..10]).
SerialOf_shifted(data) == Slice(data, 6, 10)

\* logger_serial.copy_from_slice(&data[7..11])
SerialOf(data) == Slice(data, 7, 11)

\* ResponseHeader::from_bytes
ResponseHeader_from_bytes(data) ==
    LET len == Len(data)
        run == Checked(<< Step(SliceOk(len, 1, 3), 3),
                          Step(SliceOk(len, 7, 11), 11),
                          Step(SliceOk(len, 5, 7), 7) >>)
    IN  IF run.panic
        THEN [panic |-> TRUE, touched |-> run.touched, length |-> 0,
              msg_id |-> <<>>, logger_serial |-> <<>>]
        ELSE [panic |-> FALSE, touched |-> run.touched,
              length |-> from_le_bytes(Slice(data, 1, 3)),
              msg_id |-> Slice(data, 5, 7),
              logger_serial |-> SerialOf(data)]

\* Mutant: the checksum byte is taken into the frame (data[14..len - 1]).
RtuFrameOf_long(data) == Slice(data, 14, Len(data) - 1)

\* Mutant: the frame starts where a Request's frame starts (data[15..len - 2]).
RtuFrameOf_late(data) == Slice(data, 15, Len(data) - 2)

\* Mutant: the frame runs to the end of the buffer (data[14..]).
RtuFrameOf_with_trailer(data) == Slice(data, 14, Len(data))

\* rtu_frame.extend_from_slice(&data[14..data.len() - 2])
RtuFrameOf(data) == Slice(data, 14, Len(data) - 2)

\* ResponsePayload::from_bytes.  `data.len() - 16` underflows for len < 16:
\* a debug build panics at the subtraction, a release build wraps and
\* Vec::with_capacity panics on the capacity; either way the call panics
\* before the rtu_frame slice is taken.
ResponsePayload_from_bytes(data) ==
    LET len == Len(data)
        run == Checked(<< Step(1 < len, 2),
                          Step(SliceOk(len, 2, 6), 6),
                          Step(SliceOk(len, 6, 10), 10),
                          Step(SliceOk(len, 10, 14), 14),
                          Step(len >= 16, 0),
                          Step(SliceOk(len, 14, len - 2), len - 2),
                          Step(len - 2 >= 0 /\ len - 2 < len, len - 1) >>)
    IN  IF run.panic
        THEN [panic |-> TRUE, touched |-> run.touched, status |-> 0,
              total_working_time |-> <<>>, power_on_time |-> <<>>,
              offset_time |-> <<>>, rtu_frame |-> <<>>, checksum |-> 0]
        ELSE [panic |-> FALSE, touched |-> run.touched,
              status |-> data[2],
              total_working_time |-> Slice(data, 2, 6),
              power_on_time |-> Slice(data, 6, 10),
              offset_time |-> Slice(data, 10, 14),
              rtu_frame |-> RtuFrameOf(data),
              checksum |-> data[len - 1]]

NoHeader == [panic |-> TRUE, touched |-> 0, length |-> 0,
             msg_id |-> <<>>, logger_serial |-> <<>>]

NoPayload == [panic |-> TRUE, touched |-> 0, status |-> 0,
              total_working_time |-> <<>>, power_on_time |-> <<>>,
              offset_time |-> <<>>, rtu_frame |-> <<>>, checksum |-> 0]

\* Response::from_bytes: header from &data[0..11], then payload from
\* &data[11..]; both slice expressions panic when data is shorter than 11.
\* outcome is "ok" (a Response value) or "panic"; the function has no error
\* return.  touched is the end (exclusive) of the bytes of data it read.
Response_from_bytes(data) ==
    LET len == Len(data)
        header == IF SliceOk(len, 0, 11)
                  THEN ResponseHeader_from_bytes(Slice(data, 0, 11))
                  ELSE NoHeader
        payload == IF ~header.panic /\ SliceOk(len, 11, len)
                   THEN ResponsePayload_from_bytes(Slice(data, 11, len))
                   ELSE NoPayload
    IN  [outcome |-> IF header.panic \/ payload.panic THEN "panic" ELSE "ok",
         touched |-> IF header.panic THEN header.touched
                     ELSE Max(header.touched,
                              IF payload.touched = 0 THEN 0
                              ELSE 11 + payload.touched),
         header |-> header,
         payload |-> payload]

---------------------------------------------------------------------------
(* Inputs *)

ZeroSerial == <<0, 0, 0, 0>>

Serials == {ZeroSerial, <<1, 2, 3, 4>>, <<255, 254, 253, 252>>}

\* The frame Inverter::get_data sends
GetDataFrame == <<1, 3, 0, 59, 0, 54, 180, 17>>

SmallFrames == UNION {[1..n -> FrameBytes] : n \in 0..MaxFrameLen}

\* Frames at the limit of the 16-bit length field: 65520 and 65521 bytes
LimitFrames == {[i \in 1..n |-> 255] : n \in {U16Max - 15, U16Max - 14}}

\* (total_working_second, uptime_second, offset_seconds)
Timings == {<<0, 0, 0>>, <<16909060, 84281096, 218304272>>}

Requests ==
    {[header |-> Header(m, s),
      payload |-> Payload(ft, st, t[1], t[2], t[3], f)] :
        m \in {0, 258}, s \in Serials, ft \in {2, 1, 0}, st \in {0, 258},
        t \in Timings, f \in SmallFrames \cup {GetDataFrame}}
    \cup
    {[header |-> Header(0, <<1, 2, 3, 4>>),
      payload |-> Payload(SolarInverter, 0, 0, 0, 0, f)] : f \in LimitFrames}

NoRequest == [header |-> Header(0, ZeroSerial),
              payload |-> Payload(SolarInverter, 0, 0, 0, 0, <<>>)]

\* A buffer whose bytes all differ from their neighbours
Ramp(len, seed) == [i \in 1..len |-> (seed + i) % 256]

RampSeeds == {0, 100, 250}

\* Buffers given to Response::from_bytes: every length up to a little past
\* the 27-byte skeleton, and the two lengths the session reads.
BufferLens == (0..(27 + MaxFrameLen))
                \cup {HandshakeResponseLen, ExchangeResponseLen}

Buffers == {Ramp(n, seed) : n \in BufferLens, seed \in RampSeeds}

\* What the peer may answer to a handshake and to an exchange
HandshakeResponses ==
    {Ramp(HandshakeResponseLen, 100), Ramp(HandshakeResponseLen, 250),
     [i \in 1..HandshakeResponseLen |-> 0]}

ExchangeResponses ==
    {Ramp(ExchangeResponseLen, 0), Ramp(ExchangeResponseLen, 200)}

NoEncoded == [panic |-> FALSE, bytes |-> <<>>]

NoResponse == [outcome |-> "none", touched |-> 0,
               header |-> NoHeader, payload |-> NoPayload]

NoResult == [op |-> "none", ok |-> FALSE, value |-> <<>>, attempts |-> 0]

NoWire == [kind |-> "none", bytes |-> <<>>]

NoData == [panic |-> FALSE, voltage_a |-> 0, current_a |-> 0,
           voltage_b |-> 0, current_b |-> 0]

---------------------------------------------------------------------------
(* Codec specification: the inputs are drawn in CodecInit, the actions     *)
(* apply the codec to them.                                                *)

SessionInit ==
    /\ pc = [w \in Workers |-> "start"]
    /\ logger_serial = [w \in Workers |-> ZeroSerial]
    /\ connection = [w \in Workers |-> 0]
    /\ open = [w \in Workers |-> 0]
    /\ attempts = [w \in Workers |-> 0]
    /\ ops = [w \in Workers |-> 0]
    /\ handshakes = [w \in Workers |-> 0]
    /\ exFailures = [w \in Workers |-> 0]
    /\ wire = [w \in Workers |-> NoWire]
    /\ hsResp = [w \in Workers |-> <<>>]
    /\ result = [w \in Workers |-> NoResult]
    /\ mdata = [w \in Workers |-> NoData]
    /\ stored = [w \in Workers |-> "none"]

CodecIdle ==
    /\ cStage = "idle"
    /\ cRequest = NoRequest
    /\ cData = <<>>
    /\ cEncoded = NoEncoded
    /\ cResponse = NoResponse

CodecInit ==
    /\ SessionInit
    /\ influx_url = "valid"
    /\ cEncoded = NoEncoded
    /\ cResponse = NoResponse
    /\ \/ cStage = "request" /\ cRequest \in Requests /\ cData = <<>>
       \/ cStage = "buffer" /\ cRequest = NoRequest /\ cData \in Buffers

\* Request::to_bytes applied to the drawn request
Encode ==
    /\ cStage = "request"
    /\ cEncoded' = Request_to_bytes(cRequest)
    /\ cStage' = "encoded"
    /\ UNCHANGED <<cRequest, cData, cResponse, sessionVars>>

\* Response::from_bytes applied to the bytes Request::to_bytes produced
DecodeEncoded ==
    /\ cStage = "encoded"
    /\ ~cEncoded.panic
    /\ cData' = cEncoded.bytes
    /\ cResponse' = Response_from_bytes(cEncoded.bytes)
    /\ cStage' = "round_trip"
    /\ UNCHANGED <<cRequest, cEncoded, sessionVars>>

\* Response::from_bytes applied to the drawn buffer
Decode ==
    /\ cStage = "buffer"
    /\ cResponse' = Response_from_bytes(cData)
    /\ cStage' = "decoded"
    /\ UNCHANGED <<cRequest, cData, cEncoded, sessionVars>>

CodecNext == Encode \/ DecodeEncoded \/ Decode

CodecSpec == CodecInit /\ [][CodecNext]_vars

---------------------------------------------------------------------------
(* Device session.  Each worker (one thread per configured inverter,       *)
(* main.rs) owns one SolarmanDevice.  An operation is Inverter::new        *)
(* (SolarmanDevice::new, detect_serial) or Inverter::get_data              *)
(* (send_modbus_frame); its blocking steps are create_connection,          *)
(* write_all and read_exact, each of which the peer or the timeout may     *)
(* fail.                                                                   *)

\* The handshake request of detect_serial
HandshakeRequest(serial) ==
    [header |-> Header(0, serial),
     payload |-> Payload(SolarInverter, 0, 0, 0, 0, <<>>)]

\* The request of send_modbus_frame
ExchangeRequest(serial, frame) ==
    [header |-> Header(0, serial),
     payload |-> Payload(SolarInverter, 0, 0, 0, 0, frame)]

\* Mutant: a stream that is not closed when the operation returns.
Drop_leak(n) == n

\* `connection` goes out of scope when the operation returns, by `?` or at
\* its end: the stream is dropped and its socket closed.
Drop(n) == n - 1

\* Mutant: new ignores the handshake's failure and returns the device.
AfterHandshakeFailure_ignored == "ready"

\* `device.detect_serial()?` in new: on failure the device is dropped and
\* the caller holds no session.
AfterHandshakeFailure == "start"

\* Mutant: a failed exchange discards the session.
AfterExchangeFailure_discard == "start"

\* Mutant: a failed step of an exchange is tried again inside the core.
AfterExchangeFailure_retry == "ex_connected"

\* A `?` in send_modbus_frame returns the error through get_data; self is
\* only borrowed and stays with the caller, run_monitoring, which logs the
\* error, sleeps and polls again.
AfterExchangeFailure == "sleep"

\* Mutant: the exchange adopts the serial of the response it decoded.
SerialAfterExchange_adopt(serial, response) == response.header.logger_serial

\* send_modbus_frame reads self.logger_serial and never assigns it.
SerialAfterExchange(serial, response) == serial

InHandshake(w) == pc[w] \in {"hs_connected", "hs_written"}
InExchange(w) == pc[w] \in {"ex_connected", "ex_written"}

\* The caller holds a session: new has returned Ok(device) and
\* run_monitoring has not returned.
Ready(w) ==
    pc[w] \in {"client", "ready", "ex_connected", "ex_written", "store",
               "sleep"}

\* min(n + 1, MaxOps): the counters of the model saturate.
Count(n) == IF n < MaxOps THEN n + 1 ELSE n

\* Inverter::get_data after send_modbus_frame returned resp_frame: the
\* eight indexed reads resp_frame[103] .. resp_frame[110], each of which
\* panics when out of bounds.  The four words are kept in tenths (the
\* source divides by 10.0 into f64).
Inverter_get_data(resp_frame) ==
    LET len == Len(resp_frame)
        run == Checked([i \in 1..8 |-> Step(102 + i < len, 103 + i)])
        word(k) == resp_frame[k + 1] * 256 + resp_frame[k + 2]
    IN  IF run.panic
        THEN [panic |-> TRUE, voltage_a |-> 0, current_a |-> 0,
              voltage_b |-> 0, current_b |-> 0]
        ELSE [panic |-> FALSE, voltage_a |-> word(103), current_a |-> word(105),
              voltage_b |-> word(107), current_b |-> word(109)]

\* Mutant: the serial is kept in one place for all sessions.
AdoptSerial_shared(serials, w, serial) == [v \in Workers |-> serial]

\* self.logger_serial = response.header.logger_serial, on the device that
\* worker w owns
AdoptSerial(serials, w, serial) == [serials EXCEPT ![w] = serial]

\* What a session with this serial writes: the encoded request of
\* detect_serial and that of send_modbus_frame with the frame of get_data
Encoded(serial) ==
    [serial |-> serial,
     handshake |-> Request_to_bytes(HandshakeRequest(serial)),
     exchange |-> Request_to_bytes(ExchangeRequest(serial, GetDataFrame))]

\* The serials a session can hold: zero before the handshake, then that of
\* a handshake response
SessionSerials == {ZeroSerial} \cup {SerialOf(b) : b \in HandshakeResponses}

Writes == {Encoded(serial) : serial \in SessionSerials}

\* Encoded(serial), looked up in Writes where it is there
Written(serial) ==
    IF serial \in SessionSerials
    THEN CHOOSE e \in Writes : e.serial = serial
    ELSE Encoded(serial)

\* detect_serial from read_exact on: each buffer the device may fill and
\* the Response decoded from it
HandshakeReads ==
    {[response_buffer |-> b, response |-> Response_from_bytes(b)] :
        b \in HandshakeResponses}

\* send_modbus_frame from read_exact on, and get_data after it: each buffer
\* the device may fill, the Response decoded from it and what get_data makes
\* of its frame
ExchangeReads ==
    {[response_buffer |-> b, response |-> Response_from_bytes(b),
      monitoring |-> Inverter_get_data(
                         Response_from_bytes(b).payload.rtu_frame)] :
        b \in ExchangeResponses}

\* Mutant: after the sleep the worker builds a new session.
AfterSleep_reconnect == "start"

\* std::thread::sleep(sleep_dur) is followed by the next pass of the polling
\* loop, which calls get_data on the same inverter.
AfterSleep == "ready"

\* The operation returns to its caller.
Returned(w, op, ok, value) ==
    /\ result' = [result EXCEPT ![w] =
                    [op |-> op, ok |-> ok, value |-> value,
                     attempts |-> attempts'[w]]]
    /\ exFailures' = [exFailures EXCEPT ![w] =
                        IF op = "send_modbus_frame" /\ ~ok THEN Count(@) ELSE @]

\* An operation returns an error after create_connection succeeded.
Fail(w, op, next) ==
    /\ connection' = [connection EXCEPT ![w] = 0]
    /\ open' = [open EXCEPT ![w] = Drop(open[w])]
    /\ pc' = [pc EXCEPT ![w] = next]
    /\ UNCHANGED attempts
    /\ Returned(w, op, FALSE, <<>>)

\* create_connection, the first step of an operation and its only call of
\* connect_timeout, then set_read_timeout and set_write_timeout.
\* how = "ok": the stream is returned; "connect": connect_timeout failed, no
\* socket was opened; "set_timeout": a set_*_timeout failed, the connected
\* stream is dropped inside create_connection.
CreateConnection(w, how, op, connected, failed) ==
    /\ attempts' = [attempts EXCEPT ![w] = 1]
    /\ IF how = "ok"
       THEN /\ connection' = [connection EXCEPT ![w] = 1]
            /\ open' = [open EXCEPT ![w] = @ + 1]
            /\ pc' = [pc EXCEPT ![w] = connected]
            /\ UNCHANGED <<result, exFailures>>
       ELSE /\ connection' = [connection EXCEPT ![w] = 0]
            /\ open' = [open EXCEPT ![w] =
                          IF how = "set_timeout" THEN Drop(@ + 1) ELSE @]
            /\ pc' = [pc EXCEPT ![w] = failed]
            /\ Returned(w, op, FALSE, <<>>)

\* SolarmanDevice::new up to the return of create_connection in
\* detect_serial.  The device is built with logger_serial [0; 4].
HsConnect(w) ==
    /\ pc[w] = "start"
    /\ UNCHANGED influx_url
    /\ ops' = [ops EXCEPT ![w] = Count(@)]
    /\ logger_serial' = [logger_serial EXCEPT ![w] = ZeroSerial]
    /\ \E how \in {"ok", "connect", "set_timeout"} :
          CreateConnection(w, how, "new", "hs_connected",
                           AfterHandshakeFailure)
    /\ UNCHANGED <<handshakes, wire, hsResp, codecVars, mdata, stored>>

\* detect_serial: connection.write_all(&Request{..}.to_bytes())?
HsWrite(w) ==
    /\ pc[w] = "hs_connected"
    /\ UNCHANGED influx_url
    /\ LET request == Written(logger_serial[w]).handshake
       IN  IF request.panic
           THEN /\ pc' = [pc EXCEPT ![w] = "panicked"]
                /\ UNCHANGED <<connection, open, attempts, wire, result,
                               exFailures>>
           ELSE /\ wire' = [wire EXCEPT ![w] =
                              [kind |-> "handshake", bytes |-> request.bytes]]
                /\ \/ /\ pc' = [pc EXCEPT ![w] = "hs_written"]
                      /\ UNCHANGED <<connection, open, attempts, result,
                                     exFailures>>
                   \/ Fail(w, "new", AfterHandshakeFailure)
    /\ UNCHANGED <<logger_serial, ops, handshakes, hsResp, codecVars, mdata,
                   stored>>

\* detect_serial: read_exact of 29 bytes fails (short read, error, timeout)
HsReadFail(w) ==
    /\ pc[w] = "hs_written"
    /\ UNCHANGED influx_url
    /\ Fail(w, "new", AfterHandshakeFailure)
    /\ UNCHANGED <<logger_serial, ops, handshakes, wire, hsResp, codecVars,
                   mdata, stored>>

\* detect_serial: read_exact fills the 29-byte buffer; the response is
\* decoded and its serial adopted; new returns Ok(device) and run_monitoring
\* leaves its first loop with the inverter.
HsRead(w) ==
    /\ pc[w] = "hs_written"
    /\ UNCHANGED influx_url
    /\ \E read \in HandshakeReads :
          LET response_buffer == read.response_buffer
              response == read.response
          IN  IF response.outcome = "panic"
              THEN /\ pc' = [pc EXCEPT ![w] = "panicked"]
                   /\ UNCHANGED <<logger_serial, connection, open, attempts,
                                  handshakes, hsResp, result, exFailures>>
              ELSE /\ logger_serial' = AdoptSerial(logger_serial, w,
                                          response.header.logger_serial)
                   /\ hsResp' = [hsResp EXCEPT ![w] = response_buffer]
                   /\ handshakes' = [handshakes EXCEPT ![w] = @ + 1]
                   /\ connection' = [connection EXCEPT ![w] = 0]
                   /\ open' = [open EXCEPT ![w] = Drop(open[w])]
                   /\ pc' = [pc EXCEPT ![w] = "client"]
                   /\ UNCHANGED attempts
                   /\ Returned(w, "new", TRUE, <<>>)
    /\ UNCHANGED <<ops, wire, codecVars, mdata, stored>>

\* send_modbus_frame up to the return of create_connection
ExConnect(w) ==
    /\ pc[w] = "ready"
    /\ UNCHANGED influx_url
    /\ ops' = [ops EXCEPT ![w] = Count(@)]
    /\ \E how \in {"ok", "connect", "set_timeout"} :
          CreateConnection(w, how, "send_modbus_frame", "ex_connected",
                           AfterExchangeFailure)
    /\ UNCHANGED <<logger_serial, handshakes, wire, hsResp, codecVars, mdata, stored>>

\* send_modbus_frame: connection.write_all(&request.to_bytes())?, with the
\* frame Inverter::get_data passes.
ExWrite(w) ==
    /\ pc[w] = "ex_connected"
    /\ UNCHANGED influx_url
    /\ LET request == Written(logger_serial[w]).exchange
       IN  IF request.panic
           THEN /\ pc' = [pc EXCEPT ![w] = "panicked"]
                /\ UNCHANGED <<connection, open, attempts, wire, result,
                               exFailures>>
           ELSE /\ wire' = [wire EXCEPT ![w] =
                              [kind |-> "exchange", bytes |-> request.bytes]]
                /\ \/ /\ pc' = [pc EXCEPT ![w] = "ex_written"]
                      /\ UNCHANGED <<connection, open, attempts, result,
                                     exFailures>>
                   \/ Fail(w, "send_modbus_frame", AfterExchangeFailure)
    /\ UNCHANGED <<logger_serial, ops, handshakes, hsResp, codecVars, mdata,
                   stored>>

\* send_modbus_frame: read_exact of 140 bytes fails
ExReadFail(w) ==
    /\ pc[w] = "ex_written"
    /\ UNCHANGED influx_url
    /\ Fail(w, "send_modbus_frame", AfterExchangeFailure)
    /\ UNCHANGED <<logger_serial, ops, handshakes, wire, hsResp, codecVars,
                   mdata, stored>>

\* send_modbus_frame: read_exact fills the 140-byte buffer; the response is
\* decoded and its embedded frame returned to get_data, which reads the four
\* words and returns the MonitoringData to run_monitoring.
ExRead(w) ==
    /\ pc[w] = "ex_written"
    /\ UNCHANGED influx_url
    /\ \E read \in ExchangeReads :
          LET response == read.response
              monitoring == read.monitoring
          IN  IF response.outcome = "panic"
              THEN /\ pc' = [pc EXCEPT ![w] = "panicked"]
                   /\ UNCHANGED <<logger_serial, connection, open, attempts,
                                  result, exFailures, mdata>>
              ELSE /\ logger_serial' = [logger_serial EXCEPT ![w] =
                          SerialAfterExchange(logger_serial[w], response)]
                   /\ connection' = [connection EXCEPT ![w] = 0]
                   /\ open' = [open EXCEPT ![w] = Drop(open[w])]
                   /\ UNCHANGED attempts
                   /\ Returned(w, "send_modbus_frame", TRUE,
                               response.payload.rtu_frame)
                   /\ IF monitoring.panic
                      THEN /\ pc' = [pc EXCEPT ![w] = "get_data_panicked"]
                           /\ UNCHANGED mdata
                      ELSE /\ pc' = [pc EXCEPT ![w] = "store"]
                           /\ mdata' = [mdata EXCEPT ![w] = monitoring]
    /\ UNCHANGED <<ops, handshakes, wire, hsResp, codecVars, stored>>

\* run_monitoring between its first loop and the polling loop: the URL of
\* the database is parsed and the client built, in a loop that repeats while
\* Client::new fails.  When Url::parse fails, `?` returns the error from
\* run_monitoring, which drops the inverter and ends the thread; otherwise
\* Client::new either builds the client or fails, and the loop repeats.
ClientNew(w) ==
    /\ pc[w] = "client"
    /\ UNCHANGED influx_url
    /\ IF influx_url = "invalid"
       THEN pc' = [pc EXCEPT ![w] = "exited"]
       ELSE \E built \in BOOLEAN :
               pc' = [pc EXCEPT ![w] = IF built THEN "ready" ELSE "client"]
    /\ UNCHANGED <<logger_serial, connection, open, attempts, ops, handshakes,
                   exFailures, wire, hsResp, result, mdata, stored, codecVars>>

\* run_monitoring: the lines are built from data and client.send(&database,
\* &lines) is called; a failure is logged and the loop goes on to the sleep
\* either way.  data is not used after the lines are built.
Store(w) ==
    /\ pc[w] = "store"
    /\ UNCHANGED influx_url
    /\ \E sent \in BOOLEAN :
          stored' = [stored EXCEPT ![w] = IF sent THEN "ok" ELSE "failed"]
    /\ mdata' = [mdata EXCEPT ![w] = NoData]
    /\ pc' = [pc EXCEPT ![w] = "sleep"]
    /\ UNCHANGED <<logger_serial, connection, open, attempts, ops, handshakes,
                   exFailures, wire, hsResp, result, codecVars>>

\* run_monitoring: std::thread::sleep(sleep_dur) returns and the pass of the
\* polling loop ends.
Sleep(w) ==
    /\ pc[w] = "sleep"
    /\ UNCHANGED influx_url
    /\ pc' = [pc EXCEPT ![w] = AfterSleep]
    /\ stored' = [stored EXCEPT ![w] = "none"]
    /\ UNCHANGED <<logger_serial, connection, open, attempts, ops, handshakes,
                   exFailures, wire, hsResp, result, mdata, codecVars>>

\* The monitoring configuration is read once by main and every worker gets
\* a clone of it: influx_ip is any IpAddr and influx_port any u16, and the
\* address is formatted without brackets, which a URL needs around an IPv6
\* address.
Init ==
    /\ SessionInit
    /\ influx_url \in {"valid", "invalid"}
    /\ CodecIdle

\* One step of the thread main spawned for worker w
WorkerStep(w) ==
    \/ HsConnect(w)
    \/ HsWrite(w)
    \/ HsReadFail(w)
    \/ HsRead(w)
    \/ ExConnect(w)
    \/ ExWrite(w)
    \/ ExReadFail(w)
    \/ ExRead(w)
    \/ ClientNew(w)
    \/ Store(w)
    \/ Sleep(w)

Next == \E w \in Workers : WorkerStep(w)

Spec == Init /\ [][Next]_vars

\* Every thread keeps being scheduled, and each of its blocking calls
\* returns: connect_timeout, the read and write timeouts set on the stream,
\* and the sleep all end after a finite time, with a result or an error.
FairSpec == Spec /\ \A w \in Workers : WF_vars(WorkerStep(w))

\* The device answers worker w: a connect, a write, a read that is tried
\* again and again succeeds in the end, in the handshake and in the exchange.
DeviceAnswers(w) ==
    /\ SF_vars(HsConnect(w) /\ pc'[w] = "hs_connected")
    /\ SF_vars(HsWrite(w) /\ pc'[w] = "hs_written")
    /\ SF_vars(HsRead(w))
    /\ SF_vars(ExConnect(w) /\ pc'[w] = "ex_connected")
    /\ SF_vars(ExWrite(w) /\ pc'[w] = "ex_written")
    /\ SF_vars(ExRead(w))

\* The workers run against devices that eventually answer.
AnsweringSpec == FairSpec /\ \A w \in Workers : DeviceAnswers(w)

---------------------------------------------------------------------------
(* Properties of the device session (Spec) *)

\* Bytes 7..10 of a buffer, written out index by index
Bytes7to10(buffer) == <<buffer[8], buffer[9], buffer[10], buffer[11]>>

\* run_monitoring has returned (its `?` on the database URL) and dropped the
\* inverter with it.
Exited(w) == pc[w] = "exited"

\* C1: once new has succeeded the session's logger_serial is the serial of
\* the handshake response and no step changes it or takes the session back
\* out of Ready, whatever the exchanges do; the session ends only with
\* run_monitoring itself.
C1_SerialImmutable ==
    /\ [](\A w \in Workers :
            Ready(w) => /\ handshakes[w] = 1
                        /\ logger_serial[w] = Bytes7to10(hsResp[w]))
    /\ [][\A w \in Workers :
            Ready(w) => /\ Ready(w)' \/ Exited(w)'
                        /\ logger_serial'[w] = logger_serial[w]]_vars

C1_Witness ==
    \E w \in Workers :
        /\ pc[w] = "ready"
        /\ result[w].op = "send_modbus_frame"
        /\ result[w].ok
        /\ exFailures[w] > 0
        /\ logger_serial[w] = <<108, 109, 110, 111>>

\* C2: a session exists only after exactly one successful handshake on it;
\* a failed new leaves the caller without a session; every exchange request
\* put on the wire carries the serial of that handshake's response.
C2_HandshakeBeforeExchange ==
    \A w \in Workers :
        /\ handshakes[w] <= 1
        /\ (Ready(w) \/ Exited(w)) <=> handshakes[w] = 1
        /\ (result[w].op = "new" /\ ~result[w].ok) => ~Ready(w)
        /\ (result[w].op = "new" /\ result[w].ok) => Ready(w) \/ Exited(w)
        /\ wire[w].kind = "exchange" =>
              /\ handshakes[w] = 1
              /\ Len(hsResp[w]) = HandshakeResponseLen
              /\ Slice(wire[w].bytes, 7, 11) = Bytes7to10(hsResp[w])

C2_Witness ==
    \E w \in Workers :
        /\ pc[w] = "ex_written"
        /\ wire[w].kind = "exchange"
        /\ Slice(wire[w].bytes, 7, 11) = <<108, 109, 110, 111>>
        /\ ops[w] = MaxOps

\* C3: an exchange that failed returned after one connection attempt and
\* left the caller its session, with the handshake's serial and without a
\* further handshake; a later exchange on it can succeed (C3_Witness).
C3_ExchangeFailureKeepsSession ==
    \A w \in Workers :
        /\ (result[w].op = "send_modbus_frame" /\ ~result[w].ok) =>
              result[w].attempts = 1
        /\ exFailures[w] > 0 =>
              /\ Ready(w)
              /\ handshakes[w] = 1
              /\ logger_serial[w] = Bytes7to10(hsResp[w])

C3_Witness ==
    \E w \in Workers :
        /\ exFailures[w] > 0
        /\ pc[w] = "ready"
        /\ result[w].op = "send_modbus_frame"
        /\ result[w].ok
        /\ Len(result[w].value) > 0
        /\ handshakes[w] = 1

\* C4: an operation makes one connection attempt; while it runs past
\* create_connection it holds exactly the one socket it opened; between
\* operations the worker holds no socket and no stream.
C4_OneConnectionPerOperation ==
    \A w \in Workers :
        /\ pc[w] \in {"start", "client", "ready", "store", "sleep", "exited"} =>
              open[w] = 0 /\ connection[w] = 0
        /\ (InHandshake(w) \/ InExchange(w)) =>
              open[w] = 1 /\ connection[w] = 1
        /\ attempts[w] <= 1
        /\ result[w].op # "none" => result[w].attempts = 1

C4_Witness ==
    \E w \in Workers :
        /\ pc[w] = "ready"
        /\ ops[w] = MaxOps
        /\ exFailures[w] = 1
        /\ result[w].ok
        /\ open[w] = 0

\* C10: decoding a 29-byte handshake response yields bytes 7..10 as the
\* header's logger_serial, and after a successful detect_serial the session's
\* logger_serial is those four bytes of the response that was read.
C10_HandshakeSerial ==
    /\ \A buffer \in HandshakeResponses :
          /\ Response_from_bytes(buffer).outcome = "ok"
          /\ Response_from_bytes(buffer).header.logger_serial
                = Bytes7to10(buffer)
    /\ \A w \in Workers :
          handshakes[w] > 0 =>
              /\ Len(hsResp[w]) = HandshakeResponseLen
              /\ logger_serial[w] = Bytes7to10(hsResp[w])

C10_Witness ==
    \E w \in Workers :
        /\ pc[w] = "ready"
        /\ result[w].op = "new"
        /\ result[w].ok
        /\ hsResp[w] = Ramp(HandshakeResponseLen, 250)
        /\ logger_serial[w] = <<2, 3, 4, 5>>

---------------------------------------------------------------------------
(* Properties of the frame codec (CodecSpec) *)

FrameOf(request) == request.payload.modbus_rtu_frame

\* C5 as stated: decoding a 140-byte buffer succeeds and yields an embedded
\* frame of exactly 140 - 16 = 124 bytes.
C5_ExchangeFrame124 ==
    (cStage = "decoded" /\ Len(cData) = ExchangeResponseLen) =>
        /\ cResponse.outcome = "ok"
        /\ Len(cResponse.payload.rtu_frame) = ExchangeResponseLen - 16
        /\ Len(cResponse.payload.rtu_frame) = 124

\* C5 amended: decoding a 140-byte buffer succeeds and yields an embedded
\* frame of exactly 140 - 11 - 16 = 113 bytes, the bytes at offsets 25..137
\* of the buffer.
C5_ExchangeFrame113 ==
    (cStage = "decoded" /\ Len(cData) = ExchangeResponseLen) =>
        /\ cResponse.outcome = "ok"
        /\ Len(cResponse.payload.rtu_frame) = ExchangeResponseLen - 11 - 16
        /\ Len(cResponse.payload.rtu_frame) = 113
        /\ \A i \in 1..113 : cResponse.payload.rtu_frame[i] = cData[25 + i]

C5_Witness ==
    /\ cStage = "decoded"
    /\ Len(cData) = 140
    /\ cResponse.outcome = "ok"
    /\ Len(cResponse.payload.rtu_frame) = 113
    /\ cResponse.payload.rtu_frame[1] = 126

\* C6 as stated: the bytes of an encoded Request decode to the original
\* serial and to an rtu_frame equal to the original embedded frame.
C6_RoundTripExact ==
    cStage = "round_trip" =>
        /\ cResponse.outcome = "ok"
        /\ cResponse.header.logger_serial = cRequest.header.logger_serial
        /\ cResponse.payload.rtu_frame = FrameOf(cRequest)

\* C6 amended: the bytes of an encoded Request decode to the original serial
\* and to an rtu_frame of N + 1 bytes: the byte at offset 25 (the most
\* significant byte of offset_seconds) followed by the original frame.
C6_RoundTripShifted ==
    cStage = "round_trip" =>
        /\ cResponse.outcome = "ok"
        /\ cResponse.header.logger_serial = cRequest.header.logger_serial
        /\ Len(cResponse.payload.rtu_frame) = Len(FrameOf(cRequest)) + 1
        /\ cResponse.payload.rtu_frame
              = <<cRequest.payload.offset_seconds \div 16777216>>
                    \o FrameOf(cRequest)

C6_Witness ==
    /\ cStage = "round_trip"
    /\ cRequest.header.logger_serial = <<1, 2, 3, 4>>
    /\ FrameOf(cRequest) = <<1, 255>>
    /\ cResponse.payload.rtu_frame = <<13, 1, 255>>

\* The payload-length field at offsets 1-2 of an encoded Request
LengthField(bytes) == bytes[2] + 256 * bytes[3]

C8_ChecksumAndTerminator ==
    (cStage = "encoded" /\ ~cEncoded.panic) =>
        LET N == Len(FrameOf(cRequest))
            bytes == cEncoded.bytes
        IN  /\ Len(bytes) = 28 + N
            /\ bytes[27 + N] = SumRange(bytes, 2, 26 + N) % 256
            /\ bytes[28 + N] = 21

C8_Witness ==
    /\ cStage = "encoded"
    /\ ~cEncoded.panic
    /\ FrameOf(cRequest) = <<255, 255>>
    /\ cRequest.header.msg_id = 258
    /\ cEncoded.bytes[29] # 0
    /\ cEncoded.bytes[30] = 21

\* C9 as stated: a buffer shorter than 11 + 16 bytes makes decoding return a
\* malformed-response failure to its caller, without reading outside it.
C9_ShortBufferReturnsFailure ==
    (cStage = "decoded" /\ Len(cData) < 27) =>
        /\ cResponse.outcome = "err"
        /\ cResponse.touched <= Len(cData)

\* C9 amended: a buffer shorter than 11 + 16 bytes makes decoding panic (it
\* has no failure to return), every time and without reading outside the
\* buffer; a buffer of 27 bytes or more decodes, reading inside the buffer.
C9_ShortBufferPanics ==
    cStage = "decoded" =>
        /\ Len(cData) < 27 => cResponse.outcome = "panic"
        /\ Len(cData) >= 27 => cResponse.outcome = "ok"
        /\ cResponse.touched <= Len(cData)

C9_Witness ==
    /\ cStage = "decoded"
    /\ Len(cData) = 26
    /\ cResponse.outcome = "panic"
    /\ cResponse.touched = 25

\* The checksum byte of an encoded Request: its second-to-last byte
ChecksumByte(bytes) == bytes[Len(bytes) - 1]

\* The payload whose encoding is that of `payload` with the byte at 0-based
\* offset k set to v: the fields are read back from the changed bytes.
WithPayloadByte(payload, k, v) ==
    LET b == [RequestPayload_to_bytes(payload) EXCEPT ![k + 1] = v]
        u32(i) == b[i] + 256 * b[i + 1] + 65536 * b[i + 2]
                    + 16777216 * b[i + 3]
    IN  Payload(b[1], 256 * b[2] + b[3], u32(4), u32(8), u32(12),
                SubSeq(b, 16, Len(b)))

\* Offsets probed in a payload with an embedded frame of n bytes: the 15
\* fixed bytes, the first bytes of the frame and its last byte.
ProbeOffsets(n) ==
    {k \in 0..(14 + n) : k < 15 + Len(GetDataFrame) \/ k = 14 + n}

\* Values a probed byte is set to (below 128, so that a field whose top
\* byte is changed stays below 2^31)
ProbeValues == {0, 1, 2, 127}

\* C12: encoding the same Request again yields the same bytes, checksum
\* included; and the Request that differs from it in exactly one payload
\* byte (frame type, sensor type, a timing field or an embedded-frame byte),
\* with the same header and the same length, has a different checksum byte.
C12_ChecksumSensitive ==
    (cStage = "encoded" /\ ~cEncoded.panic) =>
        /\ Request_to_bytes(cRequest) = cEncoded
        /\ \A k \in ProbeOffsets(Len(FrameOf(cRequest))), v \in ProbeValues :
              LET other == [cRequest EXCEPT
                               !.payload = WithPayloadByte(@, k, v)]
                  bytes == Request_to_bytes(other).bytes
              IN  v # RequestPayload_to_bytes(cRequest.payload)[k + 1] =>
                      /\ Len(bytes) = Len(cEncoded.bytes)
                      /\ bytes[12 + k] = v
                      /\ \A i \in 1..11 : bytes[i] = cEncoded.bytes[i]
                      /\ ChecksumByte(bytes) # ChecksumByte(cEncoded.bytes)

\* An encoded Request whose embedded frame ends in 255, so that setting that
\* byte to 0 changes the sum by -255, and whose last timing byte is not 0
C12_Witness ==
    /\ cStage = "encoded"
    /\ ~cEncoded.panic
    /\ FrameOf(cRequest) = <<1, 255>>
    /\ cRequest.payload.offset_seconds = 218304272
    /\ ChecksumByte(cEncoded.bytes)
          # ChecksumByte(Request_to_bytes(
                [cRequest EXCEPT !.payload = WithPayloadByte(@, 16, 0)]).bytes)

\* The buffer with its second-to-last byte set to c and its last byte to t
WithTrailer(buffer, c, t) ==
    [buffer EXCEPT ![Len(buffer) - 1] = c, ![Len(buffer)] = t]

\* The checksum a response buffer would carry if it were summed as a
\* Request is: the sum modulo 256 of all bytes but the first and last two
ExpectedChecksum(buffer) == SumRange(buffer, 2, Len(buffer) - 2) % 256

\* Checksum and terminator bytes tried in place of a buffer's own
TrailerBytes(buffer) == {0, 21, 255, ExpectedChecksum(buffer)}

\* C13: a response buffer of at least 27 bytes (every buffer the session
\* decodes is 29 or 140 bytes long) and the buffer that differs from it only
\* in the checksum byte and/or the terminator byte both decode, to the same
\* logger serial and the same embedded frame; with the right checksum and
\* 0x15 in place the result is the same as with any other two bytes.
C13_TrailerIgnored ==
    (cStage = "decoded" /\ Len(cData) >= 27) =>
        \A c \in TrailerBytes(cData), t \in TrailerBytes(cData) :
            LET other == Response_from_bytes(WithTrailer(cData, c, t))
            IN  /\ cResponse.outcome = "ok"
                /\ other.outcome = "ok"
                /\ other.header.logger_serial = cResponse.header.logger_serial
                /\ other.payload.rtu_frame = cResponse.payload.rtu_frame

\* A 140-byte buffer with neither the right checksum nor 0x15 at its end
\* has been decoded.
C13_Witness ==
    /\ cStage = "decoded"
    /\ Len(cData) = ExchangeResponseLen
    /\ cData[ExchangeResponseLen - 1] # ExpectedChecksum(cData)
    /\ cData[ExchangeResponseLen] # 21
    /\ cResponse.outcome = "ok"
    /\ Len(cResponse.payload.rtu_frame) = 113

\* Byte j (0 the lowest) of the unsigned integer v
ByteOf(v, j) == (v \div Pow256(j)) % 256

\* C14: an encoded Request with embedded frame length N (N <= 65520, beyond
\* which no Request is encoded) is exactly 28 + N bytes: 0xA5; the payload
\* length 15 + N little-endian at offsets 1-2; 0x10 0x45; the message id
\* little-endian at 5-6; the logger serial at 7-10; the frame-type tag at
\* 11; the sensor type big-endian at 12-13; the three timing fields
\* little-endian at 14-17, 18-21 and 22-25; the embedded frame at
\* 26..25 + N; the checksum at 26 + N; 0x15 at 27 + N.
C14_RequestLayout ==
    (cStage = "encoded" /\ ~cEncoded.panic) =>
        LET b == cEncoded.bytes
            h == cRequest.header
            p == cRequest.payload
            N == Len(p.modbus_rtu_frame)
        IN  /\ Len(b) = 28 + N
            /\ b[1] = 165
            /\ b[2] = ByteOf(15 + N, 0) /\ b[3] = ByteOf(15 + N, 1)
            /\ b[4] = 16 /\ b[5] = 69
            /\ b[6] = ByteOf(h.msg_id, 0) /\ b[7] = ByteOf(h.msg_id, 1)
            /\ \A i \in 1..4 : b[7 + i] = h.logger_serial[i]
            /\ b[12] = p.frame_type
            /\ b[13] = ByteOf(p.sensor_type, 1)
            /\ b[14] = ByteOf(p.sensor_type, 0)
            /\ \A j \in 0..3 :
                  /\ b[15 + j] = ByteOf(p.total_working_second, j)
                  /\ b[19 + j] = ByteOf(p.uptime_second, j)
                  /\ b[23 + j] = ByteOf(p.offset_seconds, j)
            /\ \A i \in 1..N : b[26 + i] = p.modbus_rtu_frame[i]
            /\ b[27 + N] = ChecksumByte(b)
            /\ b[27 + N] = SumRange(b, 2, 26 + N) % 256
            /\ b[28 + N] = 21

\* The get_data frame has been encoded with a message id and a sensor type
\* of 0x0102 each, which come out as 02 01 and as 01 02.
C14_Witness ==
    /\ cStage = "encoded"
    /\ ~cEncoded.panic
    /\ FrameOf(cRequest) = GetDataFrame
    /\ cRequest.header.msg_id = 258
    /\ cRequest.payload.sensor_type = 258
    /\ cRequest.payload.uptime_second = 84281096
    /\ Len(cEncoded.bytes) = 36
    /\ SubSeq(cEncoded.bytes, 6, 7) = <<2, 1>>
    /\ SubSeq(cEncoded.bytes, 13, 14) = <<1, 2>>
    /\ SubSeq(cEncoded.bytes, 19, 22) = <<8, 7, 6, 5>>

---------------------------------------------------------------------------
(* Properties of the worker (Spec): panics, termination, independence *)

\* The core of worker w has panicked inside new or send_modbus_frame.
CorePanicked(w) == pc[w] = "panicked"

\* C16: every buffer the session hands to Response::from_bytes is 29 bytes
\* (handshake) or 140 bytes (exchange) long, read in full; each decodes
\* without a failed bounds check and without reading past its end, so that
\* no worker panics in new or send_modbus_frame, whatever it read and
\* whichever step failed; the decoded frame of an exchange is 113 bytes.
C16_NoPanicInSession ==
    /\ \A buffer \in HandshakeResponses :
          /\ Len(buffer) = 29
          /\ Response_from_bytes(buffer).outcome = "ok"
          /\ Response_from_bytes(buffer).touched <= 29
    /\ \A buffer \in ExchangeResponses :
          /\ Len(buffer) = 140
          /\ Response_from_bytes(buffer).outcome = "ok"
          /\ Response_from_bytes(buffer).touched <= 140
    /\ \A w \in Workers :
          /\ ~CorePanicked(w)
          /\ handshakes[w] > 0 => Len(hsResp[w]) = 29
          /\ (result[w].op = "send_modbus_frame" /\ result[w].ok) =>
                Len(result[w].value) = 140 - 27

\* One worker has seen an exchange fail and a later one succeed, the other
\* has just had a handshake fail.
C16_Witness ==
    \E w, v \in Workers :
        /\ w # v
        /\ pc[w] = "store"
        /\ exFailures[w] > 0
        /\ result[w].ok
        /\ Len(hsResp[w]) = 29
        /\ pc[v] = "start"
        /\ result[v].op = "new"
        /\ ~result[v].ok

\* The four words get_data reads from the frame, in tenths
WordsOf(frame) ==
    [panic |-> FALSE,
     voltage_a |-> 256 * frame[104] + frame[105],
     current_a |-> 256 * frame[106] + frame[107],
     voltage_b |-> 256 * frame[108] + frame[109],
     current_b |-> 256 * frame[110] + frame[111]]

\* C17: every frame a successful send_modbus_frame returns is longer than
\* 110 bytes, so the reads of get_data at indices 103..110 are in bounds:
\* get_data never panics, and when the exchange succeeded it returned the
\* four words at those indices of the frame.
C17_GetDataInBounds ==
    /\ \A buffer \in ExchangeResponses :
          LET frame == Response_from_bytes(buffer).payload.rtu_frame
          IN  /\ Len(frame) > 110
              /\ ~Inverter_get_data(frame).panic
    /\ \A w \in Workers :
          /\ pc[w] # "get_data_panicked"
          /\ (result[w].op = "send_modbus_frame" /\ result[w].ok) =>
                Len(result[w].value) > 110
          /\ pc[w] = "store" =>
                /\ result[w].op = "send_modbus_frame" /\ result[w].ok
                /\ mdata[w] = WordsOf(result[w].value)

\* get_data has returned the words of the response Ramp(140, 200): the
\* frame starts at offset 25 of the buffer, so its byte 103 is buffer byte
\* 128, which holds (200 + 129) % 256 = 73.
C17_Witness ==
    \E w \in Workers :
        /\ pc[w] = "store"
        /\ Len(result[w].value) = 113
        /\ result[w].value[104] = 73
        /\ mdata[w].voltage_a = 256 * 73 + 74
        /\ mdata[w].current_b = 256 * 79 + 80

\* Blocking steps an operation in progress still has before it (write and
\* read after the connect, read after the write)
StepsLeft(w) ==
    CASE pc[w] \in {"hs_connected", "ex_connected"} -> 2
      [] pc[w] \in {"hs_written", "ex_written"} -> 1
      [] OTHER -> 0

\* C11: when every blocking step returns, a handshake or exchange under way
\* returns to its caller; it does so within the three steps connect, write
\* and read, each step of the worker taking it one step further or out of
\* the operation with a failure, with no second connection attempt.
C11_OperationTerminates ==
    /\ \A w \in Workers :
          (InHandshake(w) \/ InExchange(w))
              ~> (~InHandshake(w) /\ ~InExchange(w) /\ result[w].op # "none")
    /\ [][\A w \in Workers :
            /\ StepsLeft(w)' <= 2
            /\ (StepsLeft(w) > 0 /\ pc'[w] # pc[w]) =>
                  /\ StepsLeft(w)' < StepsLeft(w)
                  /\ attempts'[w] = attempts[w]
            /\ (StepsLeft(w) > 0 /\ StepsLeft(w)' = 0) =>
                  /\ open'[w] = 0
                  /\ result'[w].attempts = 1
                  /\ result'[w].op = IF InHandshake(w)
                                     THEN "new" ELSE "send_modbus_frame"
            /\ (StepsLeft(w) = 0 /\ StepsLeft(w)' = 0 /\ ops'[w] # ops[w]) =>
                  /\ ~result'[w].ok
                  /\ result'[w].attempts = 1
                  /\ open'[w] = 0]_vars

\* An exchange has failed at its read after a handshake that failed at its
\* connect: both returned, each after one connection attempt.
C11_Witness ==
    \E w \in Workers :
        /\ pc[w] = "sleep"
        /\ result[w].op = "send_modbus_frame"
        /\ ~result[w].ok
        /\ result[w].attempts = 1
        /\ exFailures[w] = MaxOps
        /\ stored[w] = "none"

\* Everything worker w owns: its position in run_monitoring, its inverter
\* and session, its open stream and the locals of its polling loop
Local(w) ==
    <<pc[w], logger_serial[w], connection[w], open[w], attempts[w], ops[w],
      handshakes[w], exFailures[w], wire[w], hsResp[w], result[w], mdata[w],
      stored[w]>>

\* Worker w's thread has ended (run_monitoring returned or panicked).
Ended(w) == pc[w] \in {"exited", "panicked", "get_data_panicked"}

\* C15: under any interleaving a step changes the state of one worker only,
\* whatever it is (a blocked, failed or successful handshake or exchange); a
\* session's logger_serial is written only by the successful read of its own
\* handshake; and a worker whose thread has not ended can take its next
\* step whatever state the other workers are in.
C15_WorkersIndependent ==
    /\ [](\A w \in Workers : ~Ended(w) => ENABLED WorkerStep(w))
    /\ [][\A w, v \in Workers :
            (w # v /\ Local(w)' # Local(w)) => Local(v)' = Local(v)]_vars
    /\ [][\A w \in Workers :
            logger_serial'[w] # logger_serial[w] =>
                /\ pc[w] = "hs_written"
                /\ pc'[w] = "client"
                /\ logger_serial'[w] = Bytes7to10(hsResp'[w])]_vars

\* One worker waits for its handshake response, having had a handshake
\* fail, while the other has polled with its own serial, an exchange of its
\* own having failed before.
C15_Witness ==
    \E w, v \in Workers :
        /\ w # v
        /\ pc[v] = "hs_written"
        /\ result[v].op = "new"
        /\ ~result[v].ok
        /\ logger_serial[v] = ZeroSerial
        /\ pc[w] = "store"
        /\ exFailures[w] > 0
        /\ logger_serial[w] = <<108, 109, 110, 111>>

\* C18 as stated: the worker makes one successful handshake in its life and
\* none after it; a failed get_data and a failed store are each followed by
\* the sleep, and the sleep by the next get_data on the same session with
\* the same serial; and with a device that eventually answers the worker
\* eventually obtains data.
C18_PollsForLife ==
    /\ [][\A w \in Workers :
            /\ handshakes[w] <= handshakes'[w]
            /\ handshakes'[w] <= 1
            /\ handshakes[w] = 1 => ~InHandshake(w)'
            /\ (exFailures'[w] # exFailures[w]) => pc'[w] = "sleep"
            /\ (pc[w] = "store" /\ pc'[w] # "store") => pc'[w] = "sleep"
            /\ (pc[w] = "sleep" /\ pc'[w] # "sleep") =>
                  /\ pc'[w] = "ready"
                  /\ logger_serial'[w] = logger_serial[w]
                  /\ hsResp'[w] = hsResp[w]]_vars
    /\ \A w \in Workers : <>(pc[w] = "store")

=============================================================================
